---- MODULE Spec2Model ----
(***************************************************************************)
(* Camera and Projection of amethyst_renderer (src/cam.rs).                *)
(*                                                                         *)
(* The file is a set of pure constructors and conversions over f32 values. *)
(* An f32 is modelled as an IEEE-754 style value: NaN, +Inf, -Inf or a     *)
(* finite value.  A finite value is an exact reduced fraction n/d; a       *)
(* finite result whose magnitude exceeds MaxMag overflows to an infinity   *)
(* of its sign, as an f32 result beyond f32::MAX does, and a nonzero       *)
(* result of magnitude below 1/MaxMag underflows to zero.  Rounding of the *)
(* mantissa and the sign of zero are not modelled.                         *)
(***************************************************************************)
EXTENDS Integers, Sequences, FiniteSets, TLC

\* Largest finite magnitude of the modelled float format (f32::MAX in the
\* program; lowered here so that every product fits a 32-bit integer).
MaxMag == 4000

(***************************************************************************)
(* f32 values and arithmetic                                               *)
(***************************************************************************)
Abs(i) == IF i < 0 THEN -i ELSE i

Sgn(i) == IF i < 0 THEN -1 ELSE IF i > 0 THEN 1 ELSE 0

RECURSIVE GCD(_, _)
GCD(a, b) == IF b = 0 THEN a ELSE GCD(b, a % b)

NaN == [k |-> "nan", n |-> 0, d |-> 1]

Inf(s) == [k |-> "inf", n |-> (IF s < 0 THEN -1 ELSE 1), d |-> 1]

PInf == Inf(1)

NInf == Inf(-1)

\* The finite value n/d (d # 0), reduced; beyond the finite range it is the
\* infinity of its sign, below the smallest positive magnitude it is zero.
Fin(n, d) ==
    LET s == Sgn(n) * Sgn(d)
        an == Abs(n)
        ad == Abs(d)
        g == GCD(an, ad)
        rn == an \div g
        rd == ad \div g
    IN  IF (rn \div rd > MaxMag) \/ (rn \div rd = MaxMag /\ rn % rd # 0)
        THEN Inf(s)
        ELSE IF rn # 0 /\ ((rd \div rn > MaxMag)
                           \/ (rd \div rn = MaxMag /\ rd % rn # 0))
        THEN [k |-> "fin", n |-> 0, d |-> 1]
        ELSE [k |-> "fin", n |-> s * rn, d |-> rd]

Zero == Fin(0, 1)

One == Fin(1, 1)

Two == Fin(2, 1)

IsNaN(a) == a.k = "nan"

IsInf(a) == a.k = "inf"

IsFinite(a) == a.k = "fin"

IsZero(a) == a.k = "fin" /\ a.n = 0

\* -a
FNeg(a) == IF IsNaN(a) THEN NaN ELSE [a EXCEPT !.n = -a.n]

\* a + b
FAdd(a, b) ==
    IF IsNaN(a) \/ IsNaN(b) THEN NaN
    ELSE IF IsInf(a) /\ IsInf(b) THEN (IF a.n = b.n THEN a ELSE NaN)
    ELSE IF IsInf(a) THEN a
    ELSE IF IsInf(b) THEN b
    ELSE Fin(a.n * b.d + b.n * a.d, a.d * b.d)

\* a - b
FSub(a, b) == FAdd(a, FNeg(b))

\* a * b
FMul(a, b) ==
    IF IsNaN(a) \/ IsNaN(b) THEN NaN
    ELSE IF IsInf(a) \/ IsInf(b)
         THEN (IF IsZero(a) \/ IsZero(b) THEN NaN ELSE Inf(Sgn(a.n) * Sgn(b.n)))
    ELSE Fin(a.n * b.n, a.d * b.d)

\* a / b
FDiv(a, b) ==
    IF IsNaN(a) \/ IsNaN(b) THEN NaN
    ELSE IF IsInf(a)
         THEN (IF IsInf(b) THEN NaN
               ELSE Inf(a.n * (IF b.n < 0 THEN -1 ELSE 1)))
    ELSE IF IsInf(b) THEN Zero
    ELSE IF b.n = 0 THEN (IF a.n = 0 THEN NaN ELSE Inf(a.n))
    ELSE Fin(a.n * b.d, a.d * b.n)

\* 1 / a
FRecip(a) == FDiv(One, a)

\* a == b of f32: NaN equals nothing, itself included.
FEq(a, b) == ~IsNaN(a) /\ ~IsNaN(b) /\ a = b

\* a != b of f32
FNe(a, b) == ~FEq(a, b)

\* a > b of f32: false when either side is NaN.
FGt(a, b) ==
    /\ ~IsNaN(a)
    /\ ~IsNaN(b)
    /\ a # b
    /\ IF IsInf(a) THEN a.n > 0
       ELSE IF IsInf(b) THEN b.n < 0
       ELSE a.n * b.d > b.n * a.d

\* a >= b of f32
FGe(a, b) == FGt(a, b) \/ FEq(a, b)

(***************************************************************************)
(* cgmath: angles, Ortho, PerspectiveFov and their Matrix4 conversions     *)
(***************************************************************************)
\* pi / 180 as the fraction (355/113) / 180.
PiOver180 == Fin(71, 4068)

\* Deg<f32> -> Rad<f32>
DegToRad(deg) == FMul(deg, PiOver180)

\* tan at the half angles the model's fields of view produce, to three
\* decimals; tan of NaN or of an infinity is NaN.
Tan(rad) ==
    LET hd == FDiv(rad, PiOver180)
    IN  CASE ~IsFinite(rad) -> NaN
          [] hd = Fin(-30, 1) -> Fin(-577, 1000)
          [] hd = Fin(0, 1) -> Zero
          [] hd = Fin(30, 1) -> Fin(577, 1000)
          [] hd = Fin(45, 1) -> One
          [] hd = Fin(60, 1) -> Fin(1732, 1000)
          [] hd = Fin(120, 1) -> Fin(-1732, 1000)

\* Angle::cot
Cot(rad) == FRecip(Tan(rad))

\* Matrix4::new, column by column: M[c][r] is column c, row r.
Matrix4New(c0r0, c0r1, c0r2, c0r3, c1r0, c1r1, c1r2, c1r3, c2r0, c2r1, c2r2, c2r3, c3r0, c3r1, c3r2, c3r3) ==
    << <<c0r0, c0r1, c0r2, c0r3>>, <<c1r0, c1r1, c1r2, c1r3>>,
       <<c2r0, c2r1, c2r2, c2r3>>, <<c3r0, c3r1, c3r2, c3r3>> >>

\* From<Ortho<f32>> for Matrix4<f32>
OrthoIntoMatrix(o) ==
    Matrix4New(
        FDiv(Two, FSub(o.right, o.left)), Zero, Zero, Zero,
        Zero, FDiv(Two, FSub(o.top, o.bottom)), Zero, Zero,
        Zero, Zero, FDiv(FNeg(Two), FSub(o.far, o.near)), Zero,
        FNeg(FDiv(FAdd(o.right, o.left), FSub(o.right, o.left))),
        FNeg(FDiv(FAdd(o.top, o.bottom), FSub(o.top, o.bottom))),
        FNeg(FDiv(FAdd(o.far, o.near), FSub(o.far, o.near))),
        One)

\* From<PerspectiveFov<f32>> for Matrix4<f32>
PerspectiveIntoMatrix(p) ==
    LET f == Cot(FDiv(p.fovy, Two))
    IN  Matrix4New(
            FDiv(f, p.aspect), Zero, Zero, Zero,
            Zero, f, Zero, Zero,
            Zero, Zero, FDiv(FAdd(p.far, p.near), FSub(p.near, p.far)), FNeg(One),
            Zero, Zero, FDiv(FMul(FMul(Two, p.far), p.near), FSub(p.near, p.far)), Zero)

(***************************************************************************)
(* cam.rs                                                                  *)
(***************************************************************************)
\* The literals 0.1 and 2000.0
Near == Fin(1, 10)

Far == Fin(2000, 1)

\* No value: a Projection, Matrix4 or Camera not built yet.
NoProj == [variant |-> "None"]

NoMat == <<>>

NoCam == [proj |-> NoMat]

\* Projection::Orthographic(Ortho { .. })
Orthographic(o) == [variant |-> "Orthographic", v |-> o]

\* Projection::Perspective(PerspectiveFov { .. })
Perspective(p) == [variant |-> "Perspective", v |-> p]

\* orthographic with top and bottom stored in each other's field.
orthographic_swapped(l, r, t, b) ==
    Orthographic([left |-> l, right |-> r, top |-> b, bottom |-> t,
                  near |-> Near, far |-> Far])

\* Projection::orthographic(l, r, t, b)
orthographic(l, r, t, b) ==
    Orthographic([left |-> l, right |-> r, top |-> t, bottom |-> b,
                  near |-> Near, far |-> Far])

\* perspective storing the degrees unconverted.
perspective_degrees(aspect, fov) ==
    Perspective([fovy |-> fov, aspect |-> aspect, near |-> Near, far |-> Far])

\* perspective with the far plane equal to the near plane.
perspective_flat(aspect, fov) ==
    Perspective([fovy |-> DegToRad(fov), aspect |-> aspect,
                 near |-> Near, far |-> Near])

\* Projection::perspective(aspect, fov), fov a Deg<f32>
perspective(aspect, fov) ==
    Perspective([fovy |-> DegToRad(fov), aspect |-> aspect,
                 near |-> Near, far |-> Far])

\* The conversion with near and far reset to the constructors' defaults.
MatrixFrom_defaults(p) ==
    CASE p.variant = "Orthographic" ->
             OrthoIntoMatrix([p.v EXCEPT !.near = Near, !.far = Far])
      [] p.variant = "Perspective" ->
             PerspectiveIntoMatrix([p.v EXCEPT !.near = Near, !.far = Far])

\* The conversion with the orthographic planes taken as left = bottom and
\* right = top swapped into each other's axis.
MatrixFrom_axes(p) ==
    CASE p.variant = "Orthographic" ->
             OrthoIntoMatrix([p.v EXCEPT !.left = p.v.bottom, !.right = p.v.top,
                                         !.bottom = p.v.left, !.top = p.v.right])
      [] p.variant = "Perspective" -> PerspectiveIntoMatrix(p.v)

\* impl From<Projection> for Matrix4<f32>
MatrixFrom(p) ==
    CASE p.variant = "Orthographic" -> OrthoIntoMatrix(p.v)
      [] p.variant = "Perspective" -> PerspectiveIntoMatrix(p.v)

\* impl From<Projection> for Camera
CameraFrom(p) == [proj |-> MatrixFrom(p)]

\* standard_2d with top and bottom exchanged.
standard_2d_flipped == CameraFrom(orthographic(FNeg(One), One, FNeg(One), One))

\* Camera::standard_2d()
standard_2d == CameraFrom(orthographic(FNeg(One), One, One, FNeg(One)))

\* standard_3d with the aspect taken as height / width.
standard_3d_inverted(width, height) ==
    CameraFrom(perspective(FDiv(height, width), Fin(60, 1)))

\* Camera::standard_3d(width, height)
standard_3d(width, height) ==
    CameraFrom(perspective(FDiv(width, height), Fin(60, 1)))

(***************************************************************************)
(* #[derive(Serialize, Deserialize)]: the serde data model of a Projection *)
(***************************************************************************)
\* One event of the serde data model: its kind, a name, an f32.
Tok(t, s, f) == [t |-> t, s |-> s, f |-> f]

\* A struct field: its name, then its f32.
Field(name, val) == <<Tok("Str", name, Zero), Tok("F32", "", val)>>

\* Serialize for Ortho<f32>
SerializeOrtho(o) ==
    <<Tok("Struct", "Ortho", Zero)>>
    \o Field("left", o.left) \o Field("right", o.right)
    \o Field("bottom", o.bottom) \o Field("top", o.top)
    \o Field("near", o.near) \o Field("far", o.far)
    \o <<Tok("StructEnd", "", Zero)>>

\* Serialize for PerspectiveFov<f32>; fovy is the newtype struct Rad<f32>.
SerializePerspectiveFov(p) ==
    <<Tok("Struct", "PerspectiveFov", Zero)>>
    \o <<Tok("Str", "fovy", Zero), Tok("NewtypeStruct", "Rad", Zero),
         Tok("F32", "", p.fovy)>>
    \o Field("aspect", p.aspect)
    \o Field("near", p.near) \o Field("far", p.far)
    \o <<Tok("StructEnd", "", Zero)>>

\* Serialize for Projection: a newtype variant around the variant's struct.
Serialize(p) ==
    CASE p.variant = "Orthographic" ->
             <<Tok("NewtypeVariant", "Orthographic", Zero)>> \o SerializeOrtho(p.v)
      [] p.variant = "Perspective" ->
             <<Tok("NewtypeVariant", "Perspective", Zero)>>
             \o SerializePerspectiveFov(p.v)

\* The derived visitor: the fields of a struct are looked up by name.
HasField(w, name) ==
    \E i \in 1..Len(w) : w[i].t = "Str" /\ w[i].s = name

FieldAt(w, name) ==
    LET i == CHOOSE j \in 1..Len(w) : w[j].t = "Str" /\ w[j].s = name
    IN  IF w[i + 1].t = "NewtypeStruct" THEN w[i + 2].f ELSE w[i + 1].f

\* A failed deserialization.
DeErr == [variant |-> "Err"]

\* Deserialize reading top and bottom from each other's field.
Deserialize_crossed(w) ==
    IF Len(w) < 2 \/ w[1].t # "NewtypeVariant" THEN DeErr
    ELSE IF w[1].s = "Orthographic"
         THEN Orthographic([left |-> FieldAt(w, "left"),
                            right |-> FieldAt(w, "right"),
                            top |-> FieldAt(w, "bottom"),
                            bottom |-> FieldAt(w, "top"),
                            near |-> FieldAt(w, "near"),
                            far |-> FieldAt(w, "far")])
    ELSE Perspective([fovy |-> FieldAt(w, "fovy"),
                      aspect |-> FieldAt(w, "aspect"),
                      near |-> FieldAt(w, "near"),
                      far |-> FieldAt(w, "far")])

\* Deserialize for Projection
Deserialize(w) ==
    IF Len(w) < 2 \/ w[1].t # "NewtypeVariant" THEN DeErr
    ELSE IF w[1].s = "Orthographic"
               /\ w[2] = Tok("Struct", "Ortho", Zero)
               /\ \A n \in {"left", "right", "bottom", "top", "near", "far"} :
                      HasField(w, n)
         THEN Orthographic([left |-> FieldAt(w, "left"),
                            right |-> FieldAt(w, "right"),
                            top |-> FieldAt(w, "top"),
                            bottom |-> FieldAt(w, "bottom"),
                            near |-> FieldAt(w, "near"),
                            far |-> FieldAt(w, "far")])
    ELSE IF w[1].s = "Perspective"
               /\ w[2] = Tok("Struct", "PerspectiveFov", Zero)
               /\ \A n \in {"fovy", "aspect", "near", "far"} : HasField(w, n)
         THEN Perspective([fovy |-> FieldAt(w, "fovy"),
                           aspect |-> FieldAt(w, "aspect"),
                           near |-> FieldAt(w, "near"),
                           far |-> FieldAt(w, "far")])
    ELSE DeErr

(***************************************************************************)
(* Inputs                                                                  *)
(***************************************************************************)
\* The largest finite value and the smallest positive one.
Big == Fin(MaxMag, 1)

Tiny == Fin(1, MaxMag)

\* Plane distances: NaN, the extremes and ordinary values.
Planes == {NaN, FNeg(Big), Big, FNeg(One), Zero, One, Tiny}

\* Screen dimensions: sizes from zero up, and NaN.
Dims == {NaN, Zero, Tiny, One, Big, Fin(800, 1), Fin(600, 1)}

\* Aspect ratios
Aspects == Planes \cup {NInf, PInf, Fin(4, 3)}

\* Fields of view, in degrees
Fovs == {NaN, PInf, Fin(-60, 1), Zero, Fin(60, 1), Fin(90, 1), Fin(120, 1),
         Fin(240, 1)}

\* Projections built from the enum's variants, with any near and far.
Variants ==
    {Orthographic([left |-> l, right |-> r, top |-> t, bottom |-> b,
                   near |-> n, far |-> f]) :
        l \in {FNeg(One), Zero}, r \in {One, Two}, t \in {One, Two},
        b \in {FNeg(One)}, n \in {Near, One, Zero}, f \in {Far, One}}
    \cup
    {Perspective([fovy |-> DegToRad(d), aspect |-> a, near |-> n, far |-> f]) :
        d \in {Fin(60, 1), Fin(90, 1)}, a \in {One, Two, Zero},
        n \in {Near, One, Zero}, f \in {Far, One}}

(***************************************************************************)
(* State: the values of one evaluation.  A constructor starts it; the      *)
(* conversions then apply to the Projection it built.                      *)
(***************************************************************************)
VARIABLES
    ctor,   \* the constructor that built proj or cam: "none" before any
    args,   \* its f32 arguments
    proj,   \* the Projection in hand
    mat,    \* Matrix4::from(proj)
    cam,    \* the Camera built
    wire,   \* the serialized Projection
    back    \* the Projection deserialized from wire

vars == <<ctor, args, proj, mat, cam, wire, back>>

Init ==
    /\ ctor = "none"
    /\ args = <<>>
    /\ proj = NoProj
    /\ mat = NoMat
    /\ cam = NoCam
    /\ wire = <<>>
    /\ back = NoProj

CallOrthographic(l, r, t, b) ==
    /\ ctor = "none"
    /\ ctor' = "orthographic"
    /\ args' = <<l, r, t, b>>
    /\ proj' = orthographic(l, r, t, b)
    /\ UNCHANGED <<mat, cam, wire, back>>

CallPerspective(aspect, fov) ==
    /\ ctor = "none"
    /\ ctor' = "perspective"
    /\ args' = <<aspect, fov>>
    /\ proj' = perspective(aspect, fov)
    /\ UNCHANGED <<mat, cam, wire, back>>

Construct(p) ==
    /\ ctor = "none"
    /\ ctor' = "variant"
    /\ args' = <<>>
    /\ proj' = p
    /\ UNCHANGED <<mat, cam, wire, back>>

IntoMatrix ==
    /\ proj # NoProj
    /\ mat' = MatrixFrom(proj)
    /\ UNCHANGED <<ctor, args, proj, cam, wire, back>>

IntoCamera ==
    /\ proj # NoProj
    /\ cam' = CameraFrom(proj)
    /\ UNCHANGED <<ctor, args, proj, mat, wire, back>>

CallStandard2d ==
    /\ ctor = "none"
    /\ ctor' = "standard_2d"
    /\ args' = <<>>
    /\ cam' = standard_2d
    /\ UNCHANGED <<proj, mat, wire, back>>

CallStandard3d(width, height) ==
    /\ ctor = "none"
    /\ ctor' = "standard_3d"
    /\ args' = <<width, height>>
    /\ cam' = standard_3d(width, height)
    /\ UNCHANGED <<proj, mat, wire, back>>

DoSerialize ==
    /\ proj # NoProj
    /\ wire' = Serialize(proj)
    /\ UNCHANGED <<ctor, args, proj, mat, cam, back>>

DoDeserialize ==
    /\ wire # <<>>
    /\ back' = Deserialize(wire)
    /\ UNCHANGED <<ctor, args, proj, mat, cam, wire>>

Next ==
    \/ \E l, r, t, b \in Planes : CallOrthographic(l, r, t, b)
    \/ \E a \in Aspects, f \in Fovs : CallPerspective(a, f)
    \/ \E p \in Variants : Construct(p)
    \/ IntoMatrix
    \/ IntoCamera
    \/ CallStandard2d
    \/ \E w, h \in Dims : CallStandard3d(w, h)
    \/ DoSerialize
    \/ DoDeserialize

Spec == Init /\ [][Next]_vars
(***************************************************************************)
(* Properties                                                              *)
(***************************************************************************)
\* Some entry of the matrix is NaN or an infinity.
NonFinite(m) == \E c \in 1..4, r \in 1..4 : ~IsFinite(m[c][r])

\* Matrix4 * Vector4: the columns scaled by the vector's components, summed.
Transform(m, v) ==
    [r \in 1..4 |->
        FAdd(FAdd(FAdd(FMul(m[1][r], v[1]), FMul(m[2][r], v[2])),
                  FMul(m[3][r], v[3])),
             FMul(m[4][r], v[4]))]

\* The point (px, py, pz) in normalized device coordinates: x and y of
\* the transformed point over its w.
Ndc(m, px, py, pz) ==
    LET clip == Transform(m, <<px, py, pz, One>>)
    IN  <<FDiv(clip[1], clip[4]), FDiv(clip[2], clip[4])>>

\* C5: orthographic(l, r, t, b) returns the Orthographic variant with
\* left = l, right = r, top = t, bottom = b, near = 0.1 and far = 2000.0,
\* whatever the arguments are.
C5_OrthographicStoresItsArguments ==
    ctor = "orthographic" =>
        /\ proj.variant = "Orthographic"
        /\ proj.v = [left |-> args[1], right |-> args[2], top |-> args[3],
                     bottom |-> args[4], near |-> Fin(1, 10),
                     far |-> Fin(2000, 1)]

\* An orthographic call with degenerate horizontal planes (left = right) and
\* distinct top and bottom has returned.
C5_Witness ==
    /\ ctor = "orthographic"
    /\ args[1] = args[2]
    /\ args[3] # args[4]
    /\ proj.v.top = args[3]

\* C6: perspective(aspect, fov) returns the Perspective variant with the
\* aspect unchanged, the field of view converted from degrees to radians,
\* near = 0.1 and far = 2000.0, whatever the arguments are.
C6_PerspectiveStoresRadians ==
    ctor = "perspective" =>
        /\ proj.variant = "Perspective"
        /\ proj.v = [fovy |-> FMul(args[2], Fin(71, 4068)), aspect |-> args[1],
                     near |-> Fin(1, 10), far |-> Fin(2000, 1)]
        /\ args[2] = Fin(90, 1) => FMul(proj.v.fovy, Two) = Fin(355, 113)

\* A perspective call with a quarter-turn field of view and an aspect of
\* zero has returned.
C6_Witness ==
    /\ ctor = "perspective"
    /\ args = <<Zero, Fin(90, 1)>>
    /\ proj.v.fovy = Fin(355, 226)

\* The matrix of the orthographic projection of [-1, 1] x [-1, 1] with the
\* default near and far planes.
Unit2dMatrix ==
    << <<One, Zero, Zero, Zero>>,
       <<Zero, One, Zero, Zero>>,
       <<Zero, Zero, Fin(-20, 19999), Zero>>,
       <<Zero, Zero, Fin(-20001, 19999), One>> >>

\* C7: standard_2d() is the Camera of orthographic(-1, 1, 1, -1): the same
\* matrix on every call, with (-1, -1) the lower-left and (1, 1) the
\* upper-right corner.
C7_Standard2dIsUnitOrthographic ==
    /\ ctor = "standard_2d" =>
          /\ cam = [proj |-> Unit2dMatrix]
          /\ Ndc(cam.proj, FNeg(One), FNeg(One), FNeg(Near)) = <<FNeg(One), FNeg(One)>>
          /\ Ndc(cam.proj, One, One, FNeg(Near)) = <<One, One>>
    /\ (/\ ctor = "orthographic"
        /\ args = <<FNeg(One), One, One, FNeg(One)>>
        /\ cam # NoCam) => cam = standard_2d

\* standard_2d() has returned its Camera.
C7_Witness ==
    /\ ctor = "standard_2d"
    /\ cam # NoCam
    /\ cam.proj[2][2] = One

\* C8: standard_3d(width, height) is the Camera of
\* perspective(width / height, 60 degrees).
C8_Standard3dIsPerspective ==
    /\ ctor = "standard_3d" =>
          cam = [proj |-> PerspectiveIntoMatrix(
                              [fovy |-> FMul(Fin(60, 1), Fin(71, 4068)),
                               aspect |-> FDiv(args[1], args[2]),
                               near |-> Fin(1, 10), far |-> Fin(2000, 1)])]
    /\ (/\ ctor = "perspective"
        /\ args[2] = Fin(60, 1)
        /\ cam # NoCam) =>
          \A w, h \in Dims : FDiv(w, h) = args[1] => standard_3d(w, h) = cam

\* standard_3d(800, 600) has returned its Camera, whose first entry is
\* cot(30 degrees) over 4/3.
C8_Witness ==
    /\ ctor = "standard_3d"
    /\ args = <<Fin(800, 1), Fin(600, 1)>>
    /\ cam.proj[1][1] = FDiv(Fin(1000, 577), Fin(4, 3))

\* C9: deserializing a serialized Projection gives back the Projection, its
\* variant and every stored scalar.
C9_SerdeRoundTrip ==
    back # NoProj =>
        /\ back.variant = proj.variant
        /\ back = proj

\* An Orthographic value with four different planes has gone through
\* serialization and back.
C9_Witness ==
    /\ back # NoProj
    /\ proj.variant = "Orthographic"
    /\ Cardinality({proj.v.left, proj.v.right, proj.v.top, proj.v.bottom}) = 4
    /\ wire # <<>>

\* C10: the conversion of a Projection applies the formula of its variant
\* to the scalars the value stores, and Camera::from stores that matrix as
\* its only field.
C10_ConversionDispatchesOnVariant ==
    /\ mat # NoMat =>
          /\ proj.variant = "Orthographic" => mat = OrthoIntoMatrix(proj.v)
          /\ proj.variant = "Perspective" => mat = PerspectiveIntoMatrix(proj.v)
    /\ (proj # NoProj /\ cam # NoCam) =>
          /\ DOMAIN cam = {"proj"}
          /\ proj.variant = "Orthographic" => cam.proj = OrthoIntoMatrix(proj.v)
          /\ proj.variant = "Perspective" => cam.proj = PerspectiveIntoMatrix(proj.v)

\* A Projection built from a variant with its own near and far planes has
\* been converted to a matrix and to a Camera.
C10_Witness ==
    /\ ctor = "variant"
    /\ proj.v.near = One
    /\ proj.v.far = Far
    /\ mat # NoMat
    /\ cam = [proj |-> mat]

\* C2, as claimed: standard_3d(w, 0) returns a matrix with an Inf or NaN
\* entry, for every width w.
C2_ZeroHeightAlwaysNonFinite ==
    (ctor = "standard_3d" /\ IsZero(args[2])) => NonFinite(cam.proj)

\* C2, amended: for a width w > 0, standard_3d(w, 0) returns a matrix whose
\* entries are all finite, the first being cot(30 degrees) / +Inf = 0; a
\* matrix of standard_3d(w, 0) has an Inf or NaN entry only if w is 0 or NaN.
C2_ZeroHeightNonFiniteOnlyForNaNAspect ==
    (ctor = "standard_3d" /\ IsZero(args[2])) =>
        /\ FGt(args[1], Zero) =>
              /\ ~NonFinite(cam.proj)
              /\ cam.proj[1][1] = Zero
        /\ NonFinite(cam.proj) => (IsNaN(args[1]) \/ IsZero(args[1]))

\* standard_3d(800, 0) has returned a Camera whose first entry is zero.
C2_Witness ==
    /\ ctor = "standard_3d"
    /\ args = <<Fin(800, 1), Zero>>
    /\ cam.proj[1][1] = Zero
    /\ cam.proj[2][2] = Fin(1000, 577)

\* The corners (l, b, -near) and (r, t, -near) go to (-1, -1) and (1, 1).
CornersMapToUnitSquare ==
    /\ Ndc(mat, args[1], args[4], FNeg(Near)) = <<FNeg(One), FNeg(One)>>
    /\ Ndc(mat, args[2], args[3], FNeg(Near)) = <<One, One>>

\* C3, as claimed: for all (l, r, t, b) with l != r and t != b the matrix of
\* orthographic(l, r, t, b) maps (l, b, -near) to (-1, -1) and (r, t, -near)
\* to (1, 1).
C3_CornersForAllDistinctPlanes ==
    (/\ ctor = "orthographic"
     /\ mat # NoMat
     /\ FNe(args[1], args[2])
     /\ FNe(args[3], args[4])) => CornersMapToUnitSquare

\* Along one axis with planes lo and hi, every intermediate result of the
\* conversion and of the transformation of the two corners stays in range:
\* none overflows to an infinity and none underflows to zero.
AxisInRange(lo, hi) ==
    LET d == FSub(hi, lo)
        s == FAdd(hi, lo)
        scale == FDiv(Two, d)
        offset == FDiv(s, d)
    IN  /\ IsFinite(lo) /\ IsFinite(hi)
        /\ IsFinite(d) /\ IsFinite(s)
        /\ IsFinite(scale) /\ ~IsZero(scale)
        /\ IsFinite(offset) /\ (IsZero(offset) => IsZero(s))
        /\ \A p \in {lo, hi} :
              /\ IsFinite(FMul(scale, p))
              /\ IsZero(FMul(scale, p)) => IsZero(p)

\* C3, amended: for all finite (l, r, t, b) with l != r and t != b for which
\* no intermediate result overflows or underflows, the matrix of
\* orthographic(l, r, t, b) maps (l, b, -near) to (-1, -1) and (r, t, -near)
\* to (1, 1).
C3_CornersWhenInRange ==
    (/\ ctor = "orthographic"
     /\ mat # NoMat
     /\ FNe(args[1], args[2])
     /\ FNe(args[3], args[4])
     /\ AxisInRange(args[1], args[2])
     /\ AxisInRange(args[4], args[3])) => CornersMapToUnitSquare

\* orthographic(0, 1, 1, -1), with planes that are not symmetric about the
\* origin, has been converted to its matrix.
C3_Witness ==
    /\ ctor = "orthographic"
    /\ args = <<Zero, One, One, FNeg(One)>>
    /\ mat # NoMat
    /\ AxisInRange(args[1], args[2])
    /\ AxisInRange(args[4], args[3])
    /\ mat[4][1] = FNeg(One)

\* aspect > 0 and the field of view strictly between 0 and 180 degrees.
ValidPerspectiveArgs ==
    /\ FGt(args[1], Zero)
    /\ FGt(args[2], Zero)
    /\ FGt(Fin(180, 1), args[2])

\* C4, as claimed: for all aspect > 0 and field of view in (0, 180) degrees
\* the matrix of perspective(aspect, fov) has no NaN or Inf entry.
C4_FiniteForAllValidArgs ==
    (ctor = "perspective" /\ mat # NoMat /\ ValidPerspectiveArgs) =>
        ~NonFinite(mat)

\* C4, amended: for all aspect > 0 and field of view in (0, 180) degrees the
\* matrix of perspective(aspect, fov) has no NaN or Inf entry provided
\* neither cot(fovy / 2) nor cot(fovy / 2) / aspect overflows, as is the
\* case for every aspect >= 1 with a field of view of at least one degree;
\* with the smallest positive aspect and 60 degrees the first entry is +Inf.
C4_FiniteUnlessOverflow ==
    (ctor = "perspective" /\ mat # NoMat /\ ValidPerspectiveArgs) =>
        LET f == Cot(FDiv(FMul(args[2], PiOver180), Two))
        IN  /\ (IsFinite(f) /\ IsFinite(FDiv(f, args[1]))) => ~NonFinite(mat)
            /\ (FGe(args[1], One) /\ FGe(args[2], One)) => ~NonFinite(mat)
            /\ args = <<Tiny, Fin(60, 1)>> => mat[1][1] = PInf

\* perspective(4/3, 60 degrees) has been converted to a matrix, all of whose
\* entries are finite.
C4_Witness ==
    /\ ctor = "perspective"
    /\ args = <<Fin(4, 3), Fin(60, 1)>>
    /\ mat # NoMat
    /\ ~NonFinite(mat)
====
